---- MODULE Spec2Model ----
(***************************************************************************)
(* A model of solo.py's main(): the batch-size adjustment loop, the        *)
(* log-odds calibration loop over the real cells' doublet scores, the      *)
(* threshold selection and the persist steps that follow it.               *)
(*                                                                         *)
(* Numbers.  A probability is a fixed-point integer in 0..Scale (Scale     *)
(* stands for 1.0) and every float operation rounds to the grid, as a      *)
(* float operation rounds to its own.  A logit is m * ln 2 for an integer  *)
(* m, so that exp(logit) = 2^m is exact; a bias c is kept as the pair      *)
(* exp(c) = num/den, so that c = -inf is num = 0 and c = +inf is den = 0.  *)
(* The doublet ratio r is the fraction p/q; d_s/(1-d_s) with d_s = r/(r+1) *)
(* is r itself.  printed is the number of "Increasing batch_size"          *)
(* messages written so far, modulo 2.                                      *)
(***************************************************************************)
EXTENDS Integers, Sequences, FiniteSets

VARIABLES num_cells, batch_size, logit_predictions, doublet_ratio, expected,
          solo_scores, logit_scores, d_o, c, diff, counter_update,
          threshold, is_solo_doublet, warned, files, pc, abort, printed

vars == <<num_cells, batch_size, logit_predictions, doublet_ratio, expected,
          solo_scores, logit_scores, d_o, c, diff, counter_update,
          threshold, is_solo_doublet, warned, files, pc, abort, printed>>

(***************************************************************************)
(* Bounds of the model.                                                    *)
(***************************************************************************)
Scale == 1000
MaxReal == 3
NSim == 1
MaxThrCells == 5
MaxCells == 16
MaxBatch == 8

(***************************************************************************)
(* Program constants.                                                      *)
(***************************************************************************)
min_iterations == 5
ToleranceDen == 100
DefaultThresholdDen == 2

None == 0 - 1
np_inf == Scale * Scale
NoBias == [num |-> 0, den |-> 0]

LogitPairs == {<<0, 0>>, <<1, 0>>, <<0, 1>>, <<0 - 8, 8>>, <<8, 0 - 8>>}
Ratios == {[p |-> 1, q |-> 1], [p |-> 2, q |-> 1]}
ScoreVals == {Scale \div 10, Scale \div 5, (9 * Scale) \div 10}

(***************************************************************************)
(* Arithmetic helpers.                                                     *)
(***************************************************************************)
RECURSIVE Pow2(_)
Pow2(m) == IF m <= 0 THEN 1 ELSE 2 * Pow2(m - 1)

Abs(x) == IF x < 0 THEN 0 - x ELSE x

RoundDiv(a, b) == (2 * a + b) \div (2 * b)

RECURSIVE SeqSum(_)
SeqSum(s) == IF s = << >> THEN 0 ELSE Head(s) + SeqSum(Tail(s))

Mean(s) == RoundDiv(SeqSum(s), Len(s))

Slice(s, n) == SubSeq(s, 1, n)

SetMax(S) == CHOOSE x \in S : \A y \in S : y <= x

(***************************************************************************)
(* softmax(logit_predictions, axis=1)[:, col] for one cell.                *)
(***************************************************************************)
Softmax(pair, col) ==
    LET lo == IF pair[1] < pair[2] THEN pair[1] ELSE pair[2]
        e0 == Pow2(pair[1] - lo)
        e1 == Pow2(pair[2] - lo)
    IN  RoundDiv(Scale * (IF col = 0 THEN e0 ELSE e1), e0 + e1)

SoftmaxColumn == 0
LogitColumn == 1

DoubletScore(preds) == [i \in 1..Len(preds) |-> Softmax(preds[i], SoftmaxColumn)]

LogitDoubletScore(preds) == [i \in 1..Len(preds) |-> preds[i][LogitColumn + 1]]

(***************************************************************************)
(* The calibration loop.                                                   *)
(***************************************************************************)
ExceedsTolerance(d) == ToleranceDen * d > Scale

LoopCond_And(d, n) == ExceedsTolerance(d) /\ n < min_iterations
LoopCond(d, n) == ExceedsTolerance(d) \/ n < min_iterations

BiasOdds(mean, ratio) == [num |-> mean * ratio.q, den |-> (Scale - mean) * ratio.p]

Sigmoid_NegBias(m, bias) ==
    LET a == IF m >= 0 THEN Pow2(m) * bias.den ELSE bias.den
        b == IF m >= 0 THEN bias.num ELSE Pow2(0 - m) * bias.num
    IN  RoundDiv(Scale * a, a + b)
Sigmoid(m, bias) ==
    LET a == IF m >= 0 THEN Pow2(m) * bias.num ELSE bias.num
        b == IF m >= 0 THEN bias.den ELSE Pow2(0 - m) * bias.den
    IN  RoundDiv(Scale * a, a + b)

UpdatedScores(logits, bias) == [i \in 1..Len(logits) |-> Sigmoid(logits[i], bias)]

Delta_Signed(mean, scores) == mean - Mean(scores)
Delta(mean, scores) == Abs(mean - Mean(scores))

(***************************************************************************)
(* Threshold selection.                                                    *)
(***************************************************************************)
AssertOk_NoMajority(n, e) == n - e > 0 /\ 2 * e <= n
AssertOk(n, e) == n - e > 0

MajorityWarning(n, e) == 2 * e > n

ArgPartition(scores, k) ==
    {I \in SUBSET (1..Len(scores)) :
        /\ Cardinality(I) = k
        /\ \A i \in I : \A j \in (1..Len(scores)) \ I : scores[i] <= scores[j]}

ThresholdOf_Min(scores, I) == CHOOSE x \in {scores[i] : i \in I} : \A i \in I : x <= scores[i]
ThresholdOf(scores, I) == SetMax({scores[i] : i \in I})

Calls_Geq(scores, t) == [i \in 1..Len(scores) |-> scores[i] >= t]
Calls(scores, t) == [i \in 1..Len(scores) |-> scores[i] > t]

DefaultCalls(scores) == [i \in 1..Len(scores) |-> DefaultThresholdDen * scores[i] > Scale]

(***************************************************************************)
(* The batch-size adjustment.                                              *)
(***************************************************************************)
RoundHalfEven(a, b) ==
    LET qt == a \div b
        r2 == 2 * (a % b)
    IN  IF r2 < b THEN qt
        ELSE IF r2 > b THEN qt + 1
        ELSE IF qt % 2 = 0 THEN qt ELSE qt + 1

AdjustedBatchSize(b) == RoundHalfEven(5 * b, 4)

BatchInit ==
    /\ num_cells \in 2..MaxCells
    /\ batch_size \in 1..MaxBatch
    /\ pc = "batch_loop"
    /\ logit_predictions = << >>
    /\ doublet_ratio = [p |-> 2, q |-> 1]
    /\ expected = None
    /\ solo_scores = << >>
    /\ logit_scores = << >>
    /\ d_o = None
    /\ c = NoBias
    /\ diff = np_inf
    /\ counter_update = 0
    /\ threshold = None
    /\ is_solo_doublet = << >>
    /\ warned = FALSE
    /\ files = {}
    /\ abort = "none"
    /\ printed = 0

BatchAdjust ==
    /\ pc = "batch_loop"
    /\ num_cells % batch_size = 1
    /\ batch_size' = AdjustedBatchSize(batch_size)
    /\ printed' = (printed + 1) % 2
    /\ UNCHANGED <<num_cells, logit_predictions, doublet_ratio, expected,
                   solo_scores, logit_scores, d_o, c, diff, counter_update,
                   threshold, is_solo_doublet, warned, files, pc, abort>>

BatchDone ==
    /\ pc = "batch_loop"
    /\ num_cells % batch_size # 1
    /\ pc' = "batch_done"
    /\ UNCHANGED <<num_cells, batch_size, logit_predictions, doublet_ratio,
                   expected, solo_scores, logit_scores, d_o, c, diff,
                   counter_update, threshold, is_solo_doublet, warned, files,
                   abort, printed>>

BatchNext == BatchAdjust \/ BatchDone

SpecBatch == BatchInit /\ [][BatchNext]_vars /\ WF_vars(BatchNext)

(***************************************************************************)
(* The pipeline from the classifier's predictions on.                      *)
(***************************************************************************)
Init ==
    /\ num_cells \in 1..MaxReal
    /\ batch_size = 128
    /\ logit_predictions \in [1..(num_cells + NSim) -> LogitPairs]
    /\ doublet_ratio \in Ratios
    /\ expected \in {None} \cup (1..(num_cells + 1))
    /\ solo_scores = << >>
    /\ logit_scores = << >>
    /\ d_o = None
    /\ c = NoBias
    /\ diff = np_inf
    /\ counter_update = 0
    /\ threshold = None
    /\ is_solo_doublet = << >>
    /\ warned = FALSE
    /\ files = {}
    /\ pc = "predict"
    /\ abort = "none"
    /\ printed = 0

WritePredictions ==
    /\ pc = "predict"
    /\ solo_scores' = Slice(DoubletScore(logit_predictions), num_cells)
    /\ logit_scores' = Slice(LogitDoubletScore(logit_predictions), num_cells)
    /\ diff' = np_inf
    /\ counter_update' = 0
    /\ files' = files \cup {"no_updates_softmax_scores.npy", "no_updates_softmax_scores.csv",
                            "no_updates_softmax_scores_sim.npy", "logit_scores.npy",
                            "logit_scores.csv", "logit_scores_sim.npy"}
    /\ pc' = "calibrate"
    /\ UNCHANGED <<num_cells, batch_size, logit_predictions, doublet_ratio,
                   expected, d_o, c, threshold, is_solo_doublet, warned, abort, printed>>

CalibrationPass ==
    /\ pc = "calibrate"
    /\ LoopCond(diff, counter_update)
    /\ d_o' = Mean(solo_scores)
    /\ c' = BiasOdds(d_o', doublet_ratio)
    /\ solo_scores' = UpdatedScores(logit_scores, c')
    /\ diff' = Delta(d_o', solo_scores')
    /\ counter_update' = counter_update + 1
    /\ UNCHANGED <<num_cells, batch_size, logit_predictions, doublet_ratio,
                   expected, logit_scores, threshold, is_solo_doublet, warned,
                   files, pc, abort, printed>>

SaveScores ==
    /\ pc = "calibrate"
    /\ ~LoopCond(diff, counter_update)
    /\ files' = files \cup {"softmax_scores.npy", "softmax_scores.csv"}
    /\ pc' = "threshold"
    /\ UNCHANGED <<num_cells, batch_size, logit_predictions, doublet_ratio,
                   expected, solo_scores, logit_scores, d_o, c, diff,
                   counter_update, threshold, is_solo_doublet, warned, abort, printed>>

ThresholdSelect ==
    /\ pc = "threshold"
    /\ expected # None
    /\ AssertOk(Len(solo_scores), expected)
    /\ warned' = MajorityWarning(Len(solo_scores), expected)
    /\ \E I \in ArgPartition(solo_scores, Len(solo_scores) - expected) :
          /\ threshold' = ThresholdOf(solo_scores, I)
          /\ is_solo_doublet' = Calls(solo_scores, threshold')
    /\ pc' = "save_calls"
    /\ UNCHANGED <<num_cells, batch_size, logit_predictions, doublet_ratio,
                   expected, solo_scores, logit_scores, d_o, c, diff,
                   counter_update, files, abort, printed>>

ThresholdAssertFail ==
    /\ pc = "threshold"
    /\ expected # None
    /\ ~AssertOk(Len(solo_scores), expected)
    /\ warned' = MajorityWarning(Len(solo_scores), expected)
    /\ pc' = "aborted"
    /\ abort' = "AssertionError"
    /\ UNCHANGED <<num_cells, batch_size, logit_predictions, doublet_ratio,
                   expected, solo_scores, logit_scores, d_o, c, diff,
                   counter_update, threshold, is_solo_doublet, files, printed>>

ThresholdDefault ==
    /\ pc = "threshold"
    /\ expected = None
    /\ is_solo_doublet' = DefaultCalls(solo_scores)
    /\ pc' = "save_calls"
    /\ UNCHANGED <<num_cells, batch_size, logit_predictions, doublet_ratio,
                   expected, solo_scores, logit_scores, d_o, c, diff,
                   counter_update, threshold, warned, files, abort, printed>>

SaveCalls ==
    /\ pc = "save_calls"
    /\ files' = files \cup {"is_doublet.npy", "is_doublet.csv", "is_doublet_sim.npy"}
    /\ pc' = "save_preds"
    /\ UNCHANGED <<num_cells, batch_size, logit_predictions, doublet_ratio,
                   expected, solo_scores, logit_scores, d_o, c, diff,
                   counter_update, threshold, is_solo_doublet, warned, abort, printed>>

\* order_pred is bound nowhere: evaluating the argument of np.save raises
\* NameError, and nothing after this line (the smoother included) runs.
SavePreds ==
    /\ pc = "save_preds"
    /\ pc' = "aborted"
    /\ abort' = "NameError"
    /\ UNCHANGED <<num_cells, batch_size, logit_predictions, doublet_ratio,
                   expected, solo_scores, logit_scores, d_o, c, diff,
                   counter_update, threshold, is_solo_doublet, warned, files, printed>>

Next ==
    \/ WritePredictions
    \/ CalibrationPass
    \/ SaveScores
    \/ ThresholdSelect
    \/ ThresholdAssertFail
    \/ ThresholdDefault
    \/ SaveCalls
    \/ SavePreds

Spec == Init /\ [][Next]_vars

(***************************************************************************)
(* Threshold selection on its own: the calibrated scores are any scores.   *)
(***************************************************************************)
ThresholdInit ==
    /\ num_cells \in 1..MaxThrCells
    /\ batch_size = 128
    /\ logit_predictions = << >>
    /\ doublet_ratio = [p |-> 2, q |-> 1]
    /\ expected \in {None} \cup (1..(num_cells + 1))
    /\ solo_scores \in [1..num_cells -> ScoreVals \cup {Scale \div 2, Scale \div 2 + 1}]
    /\ logit_scores = << >>
    /\ d_o = None
    /\ c = NoBias
    /\ diff = 0
    /\ counter_update = min_iterations
    /\ threshold = None
    /\ is_solo_doublet = << >>
    /\ warned = FALSE
    /\ files = {"softmax_scores.npy", "softmax_scores.csv"}
    /\ pc = "threshold"
    /\ abort = "none"
    /\ printed = 0

ThresholdNext ==
    \/ ThresholdSelect
    \/ ThresholdAssertFail
    \/ ThresholdDefault
    \/ SaveCalls
    \/ SavePreds

SpecThreshold == ThresholdInit /\ [][ThresholdNext]_vars

(***************************************************************************)
(* Helpers of the claims below.                                            *)
(***************************************************************************)
AfterLoop == pc \in {"threshold", "save_calls", "save_preds", "aborted"}

Selected == expected # None /\ threshold # None

Cells == 1..Len(solo_scores)

TrueCalls == {i \in Cells : is_solo_doublet[i]}

Distinct(s) == \A i \in 1..Len(s) : \A j \in 1..Len(s) : i # j => s[i] # s[j]

KthSmallest(s, k) ==
    CHOOSE v \in {s[i] : i \in 1..Len(s)} :
        /\ Cardinality({j \in 1..Len(s) : s[j] < v}) < k
        /\ k <= Cardinality({j \in 1..Len(s) : s[j] <= v})

OffTarget ==
    ToleranceDen * Abs(Mean(solo_scores) * (doublet_ratio.p + doublet_ratio.q)
                       - Scale * doublet_ratio.p)
        > Scale * (doublet_ratio.p + doublet_ratio.q)

PassBound == min_iterations + ToleranceDen

(***************************************************************************)
(* C1: the calibration loop runs another pass whenever fewer than          *)
(* min_iterations passes have run, whatever delta is, and once the loop    *)
(* has been left at least min_iterations passes have run and delta is at   *)
(* most the tolerance.                                                     *)
(***************************************************************************)
C1_LoopExit ==
    /\ AfterLoop => counter_update >= min_iterations /\ ~ExceedsTolerance(diff)
    /\ (pc = "calibrate" /\ counter_update < min_iterations)
          => ENABLED CalibrationPass /\ ~ENABLED SaveScores

C1_Witness ==
    /\ pc = "calibrate"
    /\ 0 < counter_update
    /\ counter_update < min_iterations
    /\ ~ExceedsTolerance(diff)

(***************************************************************************)
(* C2 as stated: once the loop has been left, the mean of the calibrated   *)
(* scores is within the tolerance of the target prevalence                 *)
(* ratio / (ratio + 1).                                                    *)
(***************************************************************************)
C2_MeanNearTarget == AfterLoop => ~OffTarget

(***************************************************************************)
(* C2 as amended: once the loop has been left, the mean of the calibrated  *)
(* scores is within the tolerance of the observed mean d_o of the last     *)
(* pass (the mean of the scores before that pass), wherever the target     *)
(* prevalence lies.                                                        *)
(***************************************************************************)
C2_MeanNearObserved ==
    AfterLoop => ~ExceedsTolerance(Abs(d_o - Mean(solo_scores)))

C2_Witness == AfterLoop /\ counter_update > min_iterations /\ OffTarget

(***************************************************************************)
(* C3: with expected_doublets = e, 1 <= e < n, and n pairwise distinct     *)
(* scores, the threshold is the (n-e)-th smallest score, exactly e calls   *)
(* are true and every true call scores above every false call.            *)
(***************************************************************************)
C3_ExactWithoutTies ==
    (Selected /\ expected >= 1 /\ expected < Len(solo_scores) /\ Distinct(solo_scores))
        => /\ threshold = KthSmallest(solo_scores, Len(solo_scores) - expected)
           /\ Cardinality(TrueCalls) = expected
           /\ \A i \in TrueCalls : \A j \in Cells \ TrueCalls :
                 solo_scores[i] > solo_scores[j]

C3_Witness ==
    /\ Selected
    /\ Len(solo_scores) = MaxThrCells
    /\ expected = 3
    /\ Distinct(solo_scores)
    /\ Cardinality(TrueCalls) = 3

(***************************************************************************)
(* C4: with expected_doublets = e and k = n - e > 0, ties or not, a call   *)
(* is true iff its score is strictly above the k-th smallest score; the    *)
(* true calls are never more than e, and fewer than e exactly when more    *)
(* than k scores are at most the k-th smallest (a tie across position k).  *)
(***************************************************************************)
C4_StrictAboveKth ==
    Selected =>
        LET k == Len(solo_scores) - expected
            v == KthSmallest(solo_scores, k)
        IN  /\ \A i \in Cells : is_solo_doublet[i] <=> solo_scores[i] > v
            /\ Cardinality(TrueCalls) <= expected
            /\ Cardinality(TrueCalls) < expected
                  <=> Cardinality({j \in Cells : solo_scores[j] <= v}) > k

C4_Witness ==
    /\ Selected
    /\ solo_scores = <<Scale \div 10, Scale \div 5, Scale \div 5, Scale \div 5,
                        (9 * Scale) \div 10>>
    /\ expected = 2
    /\ is_solo_doublet = <<FALSE, FALSE, FALSE, FALSE, TRUE>>

(***************************************************************************)
(* C5: with expected_doublets >= n the run fails at the assertion before   *)
(* any call is computed or written, and goes no further; the majority      *)
(* warning with k > 0 does not fail the assertion: the calls are computed. *)
(***************************************************************************)
C5_FatalPrecondition ==
    /\ (pc # "threshold" /\ expected # None /\ expected >= Len(solo_scores))
          => /\ pc = "aborted"
             /\ abort = "AssertionError"
             /\ is_solo_doublet = << >>
             /\ threshold = None
             /\ files \cap {"is_doublet.npy", "is_doublet.csv", "is_doublet_sim.npy"} = {}
    /\ (pc # "threshold" /\ expected # None /\ expected < Len(solo_scores))
          => /\ abort # "AssertionError"
             /\ Len(is_solo_doublet) = Len(solo_scores)
             /\ warned = MajorityWarning(Len(solo_scores), expected)

C5_Witness ==
    /\ pc = "aborted"
    /\ abort = "AssertionError"
    /\ expected = Len(solo_scores)
    /\ is_solo_doublet = << >>

(***************************************************************************)
(* C6 as stated: the bias of every pass is finite (exp(c) is neither 0 nor *)
(* infinite), also when the working scores are all 0 or all 1.             *)
(***************************************************************************)
C6_BiasFinite == c # NoBias => c.num > 0 /\ c.den > 0

(***************************************************************************)
(* C7 as stated: the loop test holds an explicit maximum pass count: at    *)
(* every test of the loop there is a pass count, within the bound on the   *)
(* passes, at which the loop is left even with delta above the tolerance.  *)
(***************************************************************************)
C7_ExplicitCap ==
    pc = "calibrate" =>
        \E cap \in counter_update..PassBound : ~LoopCond(Scale, cap)

(***************************************************************************)
(* C7 as amended: the loop never runs more than min_iterations +           *)
(* 1/tolerance passes, although it is never left with delta above the      *)
(* tolerance: no maximum pass count ends it.                               *)
(***************************************************************************)
C7_BoundedPasses ==
    /\ counter_update <= PassBound
    /\ pc = "threshold" => ~ExceedsTolerance(diff)

C7_Witness == pc = "threshold" /\ counter_update > min_iterations + 1

(***************************************************************************)
(* C8 as stated: the initial working scores and the logits of the update   *)
(* are the same column (class) of the predictions, sliced to the real      *)
(* cells.                                                                  *)
(***************************************************************************)
C8_SameColumn ==
    (pc = "calibrate" /\ counter_update = 0) =>
        \E col \in {0, 1} :
            /\ Len(solo_scores) = num_cells
            /\ Len(logit_scores) = num_cells
            /\ \A i \in 1..num_cells :
                  /\ logit_scores[i] = logit_predictions[i][col + 1]
                  /\ solo_scores[i] = Softmax(logit_predictions[i], col)

(***************************************************************************)
(* C9 as stated: a run that has passed threshold selection persists its    *)
(* calls and does not abort.                                               *)
(***************************************************************************)
C9_PersistCompletes == is_solo_doublet # << >> => abort = "none"

(***************************************************************************)
(* C10 as stated: the batch-size adjustment loop terminates, for every     *)
(* num_cells and batch_size.                                               *)
(***************************************************************************)
C10_BatchLoopTerminates == <>(pc = "batch_done")

====
